---- MODULE Spec2Model ----
(***************************************************************************)
(* A model of the Torrent session of bittorrent-client (src/index.js,      *)
(* lines 270-582) and of the part of Client.add that wires a session to    *)
(* its client (lines 144-202).                                             *)
(*                                                                         *)
(* One session is modelled with its peer connections ("wires"): its        *)
(* construction from a torrent id, the metadata bootstrap (_onWire,        *)
(* _onMetadata), the switch of a wire into block exchange                  *)
(* (_onWireWithMetadata) and the block scheduler (requestPiece,            *)
(* requestPieces) with the handlers of the wire events.  The Storage       *)
(* engine (lib/storage) is not part of the sources at hand; it is          *)
(* modelled from its contract.                                             *)
(***************************************************************************)
EXTENDS Integers, Sequences, FiniteSets, TLC

VARIABLES torrent, wires, pending, env, last, peerT, peerWires

vars == <<torrent, wires, pending, env, last, peerT, peerWires>>

(***************************************************************************)
(* Bounds of the model.                                                    *)
(***************************************************************************)
NumWires == 2
NumPieces == 2
BlocksPerPiece == 2
\* how many times the environment fails requests (a failed or timed-out
\* request, a choke) and how many blocks it answers with wrong bytes
MaxFailures == 1
MaxBadBlocks == 1

(***************************************************************************)
(* Program constants.                                                      *)
(***************************************************************************)
BLOCK_LENGTH == 16384
MAX_BLOCK_LENGTH == 131072
MAX_OUTSTANDING_REQUESTS == 5
ENDGAME_THRESHOLD == 30

\* null and undefined where a string (info hash, name, metadata blob) is expected
NULL == "null"
UNDEF == "undefined"
\* null or undefined where an object (parsedTorrent, storage) is expected
NullObj == [nil |-> TRUE]
\* selectBlock's "no block"
NoBlock == -1

\* JavaScript truthiness of a string-valued reference
Truthy(x) == x # NULL /\ x # UNDEF

Wires == 1..NumWires
\* the wires of the second local session: 1 to the first session, 2 to another peer
PeerWires == {1, 2}
Pieces == 0..(NumPieces - 1)
NumBlocks == NumPieces * BlocksPerPiece
Blocks == 0..(NumBlocks - 1)

PieceOf(k) == k \div BlocksPerPiece
OffsetOf(k) == (k % BlocksPerPiece) * BLOCK_LENGTH
BlocksOf(p) == {k \in Blocks : PieceOf(k) = p}

Min(S) == CHOOSE x \in S : \A y \in S : x <= y

(***************************************************************************)
(* Byte blobs handed to parseTorrent: torrent files and assembled          *)
(* metadata.  "good" and "alt" are well-formed descriptions of two         *)
(* different contents, "corrupt" does not parse.                           *)
(***************************************************************************)
Blobs == {"good", "alt", "corrupt"}

NoParse == [ok |-> FALSE, infoHash |-> UNDEF, name |-> UNDEF, files |-> <<>>]

parseTorrent(blob) ==
  CASE blob = "good" -> [ok |-> TRUE, infoHash |-> "h1", name |-> "n1",
                         files |-> <<"f1">>]
    [] blob = "alt"  -> [ok |-> TRUE, infoHash |-> "h2", name |-> "n2",
                         files |-> <<"g1", "g2">>]
    [] OTHER         -> NoParse

(***************************************************************************)
(* Torrent ids accepted by the constructor: a torrent file (buffer), an    *)
(* info hash (20-byte buffer or hex string) or a magnet uri, which may     *)
(* carry no info hash.                                                     *)
(***************************************************************************)
TorrentIds ==
  {[kind |-> "file", blob |-> b, hash |-> UNDEF] : b \in Blobs}
    \cup {[kind |-> "hash", blob |-> UNDEF, hash |-> "h1"]}
    \cup {[kind |-> "magnet", blob |-> UNDEF, hash |-> h] : h \in {"h1", UNDEF}}

(***************************************************************************)
(* Storage engine, from its contract: per-block state, the bytes written   *)
(* (good or bad with respect to the piece hash) and the verified pieces.   *)
(***************************************************************************)
NewStorage(parsed, n) ==
  [id |-> n,
   files |-> parsed.files,
   block |-> [k \in Blocks |-> "missing"],
   bad |-> {},
   verified |-> {}]

numMissing(st) == Cardinality(Pieces \ st.verified)

\* storage.pieces[index] is an object for every piece index of the torrent
HasPiece(st, index) == index \in Pieces

\* the block selectBlock returns, or NoBlock
SelectedBlock(st, index, endGame) ==
  LET miss == {k \in BlocksOf(index) : st.block[k] = "missing"}
      reqd == {k \in BlocksOf(index) : st.block[k] = "requested"}
  IN  IF index \notin Pieces \/ index \in st.verified THEN NoBlock
      ELSE IF miss # {} THEN Min(miss)
      ELSE IF endGame /\ reqd # {} THEN Min(reqd)
      ELSE NoBlock

\* the storage after selectBlock
selectBlock(st, index, endGame) ==
  LET k == SelectedBlock(st, index, endGame)
  IN  IF k = NoBlock THEN st
      ELSE [st EXCEPT !.block[k] = "requested"]

deselectBlock(st, k) ==
  IF st.block[k] = "requested" THEN [st EXCEPT !.block[k] = "missing"] ELSE st

\* the storage after writeBlock; good tells whether the bytes are the right ones
writeBlock(st, k, good) ==
  LET p == PieceOf(k)
      w == [st EXCEPT !.block[k] = "written",
                      !.bad = IF good THEN @ \ {k} ELSE @ \cup {k}]
      full == \A j \in BlocksOf(p) : w.block[j] = "written"
  IN  IF p \in st.verified THEN st
      ELSE IF ~full THEN w
      ELSE IF w.bad \cap BlocksOf(p) = {}
        THEN [w EXCEPT !.verified = @ \cup {p}]
        ELSE [w EXCEPT !.block = [j \in Blocks |->
                                    IF j \in BlocksOf(p) THEN "missing" ELSE @[j]],
                       !.bad = @ \ BlocksOf(p)]

\* readBlock returns bytes only of a verified piece
readBlock(st, index) == index \in st.verified

(***************************************************************************)
(* A wire (peer connection) as the session sees it.                        *)
(*   utMeta      the metadata its ut_metadata extension was created with   *)
(*   fetch       a 'metadata' listener is attached and fetch() was called  *)
(*   delivered   its ut_metadata extension has emitted 'metadata'          *)
(*   bx          how many times _onWireWithMetadata attached its handlers  *)
(*   armed       once('interested') listeners that have not fired yet      *)
(*   bitfields, interests   calls of wire.bitfield() and wire.interested() *)
(*   told        the pieces advertised to the peer by bitfield or have     *)
(*   requests    outstanding block requests, per block                     *)
(***************************************************************************)

NewWire ==
  [status |-> "none", utMeta |-> NULL, fetch |-> FALSE, delivered |-> FALSE,
   bx |-> 0, armed |-> 0, bitfields |-> 0, interests |-> 0, told |-> {},
   amChoking |-> TRUE, peerChoking |-> TRUE, peerPieces |-> {},
   requests |-> [k \in Blocks |-> 0]]

NoId == [kind |-> "none", blob |-> UNDEF, hash |-> UNDEF]

(***************************************************************************)
(* The session object.  state is "absent" before construction,             *)
(* "constructed" after it, "threw" when the constructor ended with an      *)
(* exception and "crashed" when a handler ended with an uncaught one.      *)
(* listeners tells whether Client.add has attached its handlers; the n...  *)
(* fields count Storage constructions and emitted events.                  *)
(***************************************************************************)
NewTorrent ==
  [state |-> "absent", torrentId |-> NoId,
   infoHash |-> UNDEF, name |-> UNDEF, metadata |-> UNDEF,
   parsedTorrent |-> NullObj, storage |-> NullObj,
   files |-> <<>>, filesInit |-> FALSE,
   swarm |-> FALSE, listening |-> FALSE, listeners |-> FALSE,
   nStorage |-> 0, nMetadataEv |-> 0, nTorrentEv |-> 0, nErrorEv |-> 0,
   nListeningEv |-> 0]

\* _onWireWithMetadata: the wire afterwards, and whether it threw
onWireWithMetadata(t, wr) ==
  LET h == [wr EXCEPT !.bx = @ + 1, !.armed = @ + 1]
  IN  IF t.storage = NullObj
        THEN [w |-> h, exc |-> TRUE]      \* self.storage.bitfield of null
        ELSE [w |-> [h EXCEPT !.bitfields = @ + 1,
                              !.told = t.storage.verified,
                              !.interests = @ + 1],
              exc |-> FALSE]

\* an emitter that drops an 'error' event nobody listens to
EmitErrorDropped(t) == FALSE

\* self.emit('error', err): with no 'error' listener attached the emitter throws err
EmitErrorThrows(t) == ~t.listeners

\* the guard left out: every candidate is processed
HasMetadataNever(t) == FALSE

\* the guard of _onMetadata: the session has metadata already
HasMetadata(t) == Truthy(t.metadata)

\* _onMetadata: the session and its wires afterwards, and whether it threw
onMetadata(t, ws, metadata) ==
  IF HasMetadata(t) THEN [t |-> t, ws |-> ws, exc |-> FALSE]
  ELSE
    LET t1 == [t EXCEPT !.metadata = metadata]
        parsed == parseTorrent(metadata)
        t2 == [t1 EXCEPT !.parsedTorrent = parsed,
                         !.name = parsed.name,
                         !.infoHash = parsed.infoHash,
                         !.storage = NewStorage(parsed, t.nStorage + 1),
                         !.nStorage = @ + 1]
        t3 == [t2 EXCEPT !.files = @ \o t2.storage.files]
        sw == IF t3.swarm
                THEN [w \in DOMAIN ws |->
                        IF ws[w].status = "open"
                          THEN onWireWithMetadata(t3, ws[w]).w ELSE ws[w]]
                ELSE ws
    IN  IF ~parsed.ok
          THEN IF EmitErrorThrows(t)
                 THEN [t |-> t1, ws |-> ws, exc |-> TRUE]
                 ELSE [t |-> [t1 EXCEPT !.nErrorEv = IF t.listeners THEN @ + 1 ELSE @],
                       ws |-> ws, exc |-> FALSE]
        ELSE IF ~t2.filesInit /\ Len(t2.storage.files) > 0
          THEN \* self.files.push on undefined
               [t |-> t2, ws |-> ws, exc |-> TRUE]
        ELSE [t |-> [t3 EXCEPT !.nMetadataEv = @ + 1,
                               !.nTorrentEv = IF t.listeners THEN @ + 1 ELSE @],
              ws |-> sw, exc |-> FALSE]

\* the constructor, lines 321-344: fields, swarm
TorrentInit(t) ==
  [t EXCEPT !.files = <<>>, !.filesInit = TRUE, !.metadata = NULL,
            !.parsedTorrent = NullObj, !.storage = NullObj,
            !.swarm = TRUE, !.state = "constructed"]

\* new Torrent(torrentId): the session after the constructor
Torrent(torrentId) ==
  LET t0 == [NewTorrent EXCEPT !.torrentId = torrentId]
      noWires == [w \in {} |-> NewWire]
  IN  CASE torrentId.kind = "magnet" ->
             IF ~Truthy(torrentId.hash)
               THEN \* return self.emit('error', ...)
                    IF EmitErrorThrows(t0) THEN [t0 EXCEPT !.state = "threw"]
                    ELSE [t0 EXCEPT !.state = "constructed"]
               ELSE TorrentInit([t0 EXCEPT !.infoHash = torrentId.hash])
        [] torrentId.kind = "hash" ->
             TorrentInit([t0 EXCEPT !.infoHash = torrentId.hash])
        [] OTHER ->
             LET r == onMetadata(t0, noWires, torrentId.blob)
             IN  IF r.exc THEN [r.t EXCEPT !.state = "threw"]
                 ELSE TorrentInit(r.t)

\* _onWire: the wire afterwards, and whether it threw
onWire(t, wr) ==
  LET w1 == [wr EXCEPT !.status = "open",
                       !.utMeta = IF Truthy(t.metadata) THEN t.metadata ELSE NULL,
                       !.fetch = ~Truthy(t.metadata)]
  IN  IF Truthy(t.metadata) THEN onWireWithMetadata(t, w1)
      ELSE [w |-> w1, exc |-> FALSE]

(***************************************************************************)
(* The block scheduler of one wire (closures of _onWireWithMetadata).      *)
(***************************************************************************)
RECURSIVE SumUpTo(_, _)
SumUpTo(f, k) == IF k < 0 THEN 0 ELSE f[k] + SumUpTo(f, k - 1)

\* wire.requests.length
NumRequests(wr) == SumUpTo(wr.requests, NumBlocks - 1)

\* the guard with > for >=: a sixth request passes
WindowFullOffByOne(len) == len > MAX_OUTSTANDING_REQUESTS

\* the guard of requestPiece on the number of outstanding requests
WindowFull(len) == len >= MAX_OUTSTANDING_REQUESTS

\* requestPiece(index): storage and wire afterwards.  wire.request calls back
\* with an error at once on a wire that is closed or choked by the peer.
requestPiece(st, wr, index) ==
  LET len == NumRequests(wr)
      endGame == len = 0 /\ numMissing(st) < ENDGAME_THRESHOLD
      k == SelectedBlock(st, index, endGame)
      st1 == selectBlock(st, index, endGame)
  IN  IF WindowFull(len) THEN [s |-> st, w |-> wr]
      ELSE IF k = NoBlock THEN [s |-> st, w |-> wr]
      ELSE IF wr.status # "open" \/ wr.peerChoking
        THEN [s |-> deselectBlock(st1, k), w |-> wr]
      ELSE [s |-> st1, w |-> [wr EXCEPT !.requests[k] = @ + 1]]

RECURSIVE requestPiecesFrom(_, _, _)
requestPiecesFrom(st, wr, index) ==
  IF index >= NumPieces THEN [s |-> st, w |-> wr]
  ELSE LET r == IF index \in wr.peerPieces /\ HasPiece(st, index)
                  THEN requestPiece(st, wr, index)
                  ELSE [s |-> st, w |-> wr]
       IN  requestPiecesFrom(r.s, r.w, index + 1)

\* requestPieces(): one requestPiece per piece the peer has, in index order
requestPieces(st, wr) == requestPiecesFrom(st, wr, 0)

\* the blocks for which wr2 has a request more than wr
IssuedBy(wr, wr2) == {k \in Blocks : wr2.requests[k] > wr.requests[k]}

\* the loop run from the highest piece index down
RECURSIVE requestOrderDescending(_, _, _)
requestOrderDescending(st, wr, index) ==
  IF index >= NumPieces THEN <<>>
  ELSE LET p == NumPieces - 1 - index
           r == IF p \in wr.peerPieces /\ HasPiece(st, p)
                  THEN requestPiece(st, wr, p)
                  ELSE [s |-> st, w |-> wr]
           k == IssuedBy(wr, r.w)
       IN  (IF k = {} THEN <<>> ELSE <<Min(k)>>)
             \o requestOrderDescending(r.s, r.w, index + 1)

\* the requests the loop of requestPieces() issues from piece index on, in the
\* order of the wire.request calls that were accepted
RECURSIVE requestOrderFrom(_, _, _)
requestOrderFrom(st, wr, index) ==
  IF index >= NumPieces THEN <<>>
  ELSE LET r == IF index \in wr.peerPieces /\ HasPiece(st, index)
                  THEN requestPiece(st, wr, index)
                  ELSE [s |-> st, w |-> wr]
           k == IssuedBy(wr, r.w)
       IN  (IF k = {} THEN <<>> ELSE <<Min(k)>>)
             \o requestOrderFrom(r.s, r.w, index + 1)

\* a handler that requests whether or not the peer chokes us
onHaveUnguarded(st, wr, index) ==
  IF ~HasPiece(st, index) THEN [s |-> st, w |-> wr]
  ELSE LET r == requestPiece(st, [wr EXCEPT !.peerChoking = FALSE], index)
       IN  [s |-> r.s, w |-> [r.w EXCEPT !.peerChoking = wr.peerChoking]]

\* the 'have' handler
onHave(st, wr, index) ==
  IF wr.peerChoking \/ ~HasPiece(st, index) THEN [s |-> st, w |-> wr]
  ELSE requestPiece(st, wr, index)

\* a handler runs once per set of handlers attached to the wire
RECURSIVE onHaveTimes(_, _, _, _)
onHaveTimes(st, wr, index, n) ==
  IF n = 0 THEN [s |-> st, w |-> wr]
  ELSE LET r == onHave(st, wr, index) IN onHaveTimes(r.s, r.w, index, n - 1)

RECURSIVE requestPiecesTimes(_, _, _)
requestPiecesTimes(st, wr, n) ==
  IF n = 0 THEN [s |-> st, w |-> wr]
  ELSE LET r == requestPieces(st, wr) IN requestPiecesTimes(r.s, r.w, n - 1)

\* the requests are dropped without their callbacks being run
FailAllNoCallback(st, wr) ==
  [s |-> st, w |-> [wr EXCEPT !.requests = [k \in Blocks |-> 0]]]

\* every outstanding request of the wire is called back with an error
\* (peer chokes, wire closes): each callback deselects its block
FailAll(st, wr) ==
  [s |-> [st EXCEPT !.block = [k \in Blocks |->
                      IF wr.requests[k] > 0 /\ @[k] = "requested"
                        THEN "missing" ELSE @[k]]],
   w |-> [wr EXCEPT !.requests = [k \in Blocks |-> 0]]]

\* no announcement at all
onStoragePiecesSilent(ws, newly) == ws

\* _onStoragePiece for the pieces newly verified: have() on every wire of the swarm
onStoragePieces(ws, newly) ==
  [w \in DOMAIN ws |->
     IF ws[w].status = "open" THEN [ws[w] EXCEPT !.told = @ \cup newly] ELSE ws[w]]

\* the listener registered with on() instead of once(): it stays armed
onInterestedEvery(wr) == [wr EXCEPT !.amChoking = IF wr.armed > 0 THEN FALSE ELSE @]

\* the 'interested' listeners registered with once()
onInterested(wr) ==
  [wr EXCEPT !.amChoking = IF wr.armed > 0 THEN FALSE ELSE @,
             !.armed = 0]

\* the test with >= for >: exactly 128 KiB is rejected too
TooLongInclusive(length) == length >= MAX_BLOCK_LENGTH

\* the test of the 'request' handler on the requested length
TooLong(length) == length > MAX_BLOCK_LENGTH

Event(op, w, n, s) == [op |-> op, w |-> w, n |-> n, s |-> s]

Alive == torrent.state = "constructed"
Open(w) == wires[w].status = "open"

(***************************************************************************)
(* Client.add: construct the session and attach the client's handlers.     *)
(***************************************************************************)
Add(torrentId) ==
  /\ torrent.state = "absent"
  /\ LET t == Torrent(torrentId)
     IN  torrent' = IF t.state = "constructed" THEN [t EXCEPT !.listeners = TRUE]
                    ELSE t
  /\ last' = Event("add", 0, 0, torrentId.kind)
  /\ UNCHANGED <<wires, pending, env, peerT, peerWires>>

\* swarm.listen's callback
Listening ==
  /\ Alive /\ torrent.swarm /\ ~torrent.listening
  /\ torrent' = [torrent EXCEPT !.listening = TRUE, !.nListeningEv = @ + 1]
  /\ last' = Event("listening", 0, 0, "")
  /\ UNCHANGED <<wires, pending, env, peerT, peerWires>>

\* the swarm's 'wire' event
WireConnect(w) ==
  /\ Alive /\ torrent.swarm /\ pending = <<>>
  /\ wires[w].status = "none"
  /\ LET r == onWire(torrent, wires[w])
     IN  /\ wires' = [wires EXCEPT ![w] = r.w]
         /\ torrent' = IF r.exc THEN [torrent EXCEPT !.state = "crashed"] ELSE torrent
  /\ last' = Event("wire", w, 0, "")
  /\ UNCHANGED <<pending, env, peerT, peerWires>>

\* a wire's ut_metadata extension emits 'metadata'
MetadataArrives(w, metadata) ==
  /\ Alive /\ Open(w) /\ pending = <<>>
  /\ wires[w].fetch /\ ~wires[w].delivered
  /\ LET r == onMetadata(torrent, [wires EXCEPT ![w].delivered = TRUE], metadata)
     IN  /\ wires' = r.ws
         /\ torrent' = IF r.exc THEN [r.t EXCEPT !.state = "crashed"] ELSE r.t
  /\ last' = Event("metadata", w, 0, metadata)
  /\ UNCHANGED <<pending, env, peerT, peerWires>>

(***************************************************************************)
(* Wire events in block exchange.  Between an incoming request and the     *)
(* process.nextTick that answers it only events of the same wire (the      *)
(* same chunk of received data) can be handled.                            *)
(***************************************************************************)
MaxPending == 2
\* requested lengths: exactly 128 KiB, and one byte more
Lengths == {131072, 131073}

CanHandle(w) ==
  /\ Alive /\ Open(w)
  /\ IF pending = <<>> THEN TRUE ELSE Head(pending).w = w

Crash == torrent' = [torrent EXCEPT !.state = "crashed"]

\* the peer announces a piece
Have(w, index) ==
  /\ CanHandle(w) /\ wires[w].bx > 0
  /\ index \notin wires[w].peerPieces
  /\ LET wr == [wires[w] EXCEPT !.peerPieces = @ \cup {index}]
     IN  IF torrent.storage = NullObj
           THEN /\ wires' = [wires EXCEPT ![w] = wr]
                /\ IF wr.peerChoking THEN UNCHANGED torrent ELSE Crash
           ELSE LET r == onHaveTimes(torrent.storage, wr, index, wr.bx)
                IN  /\ wires' = [wires EXCEPT ![w] = r.w]
                    /\ torrent' = [torrent EXCEPT !.storage = r.s]
  /\ last' = Event("have", w, index, "")
  /\ UNCHANGED <<pending, env, peerT, peerWires>>

\* the peer unchokes us
Unchoke(w) ==
  /\ CanHandle(w) /\ wires[w].bx > 0
  /\ LET wr == [wires[w] EXCEPT !.peerChoking = FALSE]
     IN  IF torrent.storage = NullObj
           THEN /\ wires' = [wires EXCEPT ![w] = wr]
                /\ IF wr.peerPieces = {} THEN UNCHANGED torrent ELSE Crash
           ELSE LET r == requestPiecesTimes(torrent.storage, wr, wr.bx)
                IN  /\ wires' = [wires EXCEPT ![w] = r.w]
                    /\ torrent' = [torrent EXCEPT !.storage = r.s]
  /\ last' = Event("unchoke", w, 0, "")
  /\ UNCHANGED <<pending, env, peerT, peerWires>>

\* the peer chokes us: the wire fails its outstanding requests
Choke(w) ==
  /\ CanHandle(w) /\ wires[w].bx > 0 /\ torrent.storage # NullObj
  /\ ~wires[w].peerChoking
  /\ env.fails < MaxFailures
  /\ env' = [env EXCEPT !.fails = @ + 1]
  /\ LET r == FailAll(torrent.storage, [wires[w] EXCEPT !.peerChoking = TRUE])
     IN  /\ wires' = [wires EXCEPT ![w] = r.w]
         /\ torrent' = [torrent EXCEPT !.storage = r.s]
  /\ last' = Event("choke", w, 0, "")
  /\ UNCHANGED <<pending, peerT, peerWires>>

\* the peer answers a request with the block's bytes, right or wrong
Piece(w, k, good) ==
  /\ CanHandle(w) /\ torrent.storage # NullObj
  /\ wires[w].requests[k] > 0
  /\ good \/ env.bad < MaxBadBlocks
  /\ env' = IF good THEN env ELSE [env EXCEPT !.bad = @ + 1]
  /\ LET st1 == writeBlock(torrent.storage, k, good)
         ws1 == onStoragePieces([wires EXCEPT ![w].requests[k] = @ - 1],
                                st1.verified \ torrent.storage.verified)
         r == requestPieces(st1, ws1[w])
     IN  /\ wires' = [ws1 EXCEPT ![w] = r.w]
         /\ torrent' = [torrent EXCEPT !.storage = r.s]
  /\ last' = Event("piece", w, k, IF good THEN "good" ELSE "bad")
  /\ UNCHANGED <<pending, peerT, peerWires>>

\* a request fails or times out
RequestFails(w, k) ==
  /\ CanHandle(w) /\ torrent.storage # NullObj
  /\ wires[w].requests[k] > 0
  /\ env.fails < MaxFailures
  /\ env' = [env EXCEPT !.fails = @ + 1]
  /\ wires' = [wires EXCEPT ![w].requests[k] = @ - 1]
  /\ torrent' = [torrent EXCEPT !.storage = deselectBlock(@, k)]
  /\ last' = Event("fail", w, k, "")
  /\ UNCHANGED <<pending, peerT, peerWires>>

\* the peer declares interest; last.n is the number of wire.unchoke() calls made
Interested(w) ==
  /\ CanHandle(w) /\ wires[w].bx > 0
  /\ wires' = [wires EXCEPT ![w] = onInterested(@)]
  /\ last' = Event("interested", w, wires[w].armed, "")
  /\ UNCHANGED <<torrent, pending, env, peerT, peerWires>>

\* the peer requests length bytes of piece index
Request(w, index, length) ==
  /\ CanHandle(w) /\ wires[w].bx > 0
  /\ Len(pending) + wires[w].bx <= MaxPending
  /\ IF TooLong(length)
       THEN \* wire.destroy()
            LET r == IF torrent.storage = NullObj
                       THEN [s |-> NullObj, w |-> wires[w]]
                       ELSE FailAll(torrent.storage, wires[w])
            IN  /\ wires' = [wires EXCEPT ![w] = [r.w EXCEPT !.status = "destroyed"]]
                /\ torrent' = [torrent EXCEPT !.storage = r.s]
                /\ UNCHANGED pending
       ELSE /\ UNCHANGED wires
            /\ pending' = pending \o
                 [i \in 1..wires[w].bx |-> [w |-> w, index |-> index, length |-> length]]
            /\ UNCHANGED torrent
  /\ last' = Event("request", w, length, "")
  /\ UNCHANGED <<env, peerT, peerWires>>

\* the answer without the test of readBlock's result
RespondAlways(block) == "data"

\* the answer given for what readBlock returned
Respond(block) == IF ~block THEN "error" ELSE "data"

\* process.nextTick: answer the oldest accepted request
Serve ==
  /\ Alive /\ pending # <<>>
  /\ LET rq == Head(pending)
     IN  IF torrent.storage = NullObj
           THEN /\ Crash
                /\ UNCHANGED <<wires, pending>>
                /\ last' = Event("respond", rq.w, rq.index, "crash")
           ELSE /\ pending' = Tail(pending)
                /\ last' = Event("respond", rq.w, rq.index,
                                 Respond(readBlock(torrent.storage, rq.index)))
                /\ UNCHANGED <<torrent, wires>>
  /\ UNCHANGED <<env, peerT, peerWires>>

\* the peer or the transport closes the wire
Close(w) ==
  /\ CanHandle(w)
  /\ LET r == IF torrent.storage = NullObj
                THEN [s |-> NullObj, w |-> wires[w]]
                ELSE FailAll(torrent.storage, wires[w])
     IN  /\ wires' = [wires EXCEPT ![w] = [r.w EXCEPT !.status = "closed"]]
         /\ torrent' = [torrent EXCEPT !.storage = r.s]
  /\ last' = Event("close", w, 0, "")
  /\ UNCHANGED <<pending, env, peerT, peerWires>>

Init ==
  /\ torrent = NewTorrent
  /\ wires = [w \in Wires |-> NewWire]
  /\ pending = <<>>
  /\ env = [fails |-> 0, bad |-> 0]
  /\ last = Event("init", 0, 0, "")
  /\ peerT = NewTorrent
  /\ peerWires = [w \in PeerWires |-> NewWire]

Lifecycle(ids, blobs) ==
  \/ \E id \in ids : Add(id)
  \/ Listening
  \/ \E w \in Wires : WireConnect(w)
  \/ \E w \in Wires, b \in blobs : MetadataArrives(w, b)
  \/ \E w \in Wires : Close(w)

Download ==
  \/ \E w \in Wires, i \in Pieces : Have(w, i)
  \/ \E w \in Wires : Unchoke(w)
  \/ \E w \in Wires : Choke(w)
  \/ \E w \in Wires, k \in Blocks, g \in BOOLEAN : Piece(w, k, g)
  \/ \E w \in Wires, k \in Blocks : RequestFails(w, k)

Upload ==
  \/ \E w \in Wires : Interested(w)
  \/ \E w \in Wires, i \in Pieces, n \in Lengths : Request(w, i, n)
  \/ Serve

(***************************************************************************)
(* Spec: the session from its construction on, with the metadata           *)
(* bootstrap and the events of the peers that download from it.            *)
(***************************************************************************)
Next == Lifecycle(TorrentIds, Blobs) \/ Upload

Spec == Init /\ [][Next]_vars

(***************************************************************************)
(* Block exchange from the state reached by Add of an info hash,           *)
(* Listening, WireConnect(1) and MetadataArrives(1, "good"): the session   *)
(* is descriptor-ready and wire 1 has been switched to block exchange.     *)
(***************************************************************************)
HashId == [kind |-> "hash", blob |-> UNDEF, hash |-> "h1"]

ReadyState ==
  LET t0 == [Torrent(HashId) EXCEPT !.listeners = TRUE, !.listening = TRUE,
                                    !.nListeningEv = 1]
      w1 == onWire(t0, NewWire).w
  IN  onMetadata(t0, [w \in Wires |-> IF w = 1 THEN [w1 EXCEPT !.delivered = TRUE]
                                       ELSE NewWire], "good")

InitExchange ==
  /\ torrent = ReadyState.t
  /\ wires = ReadyState.ws
  /\ pending = <<>>
  /\ env = [fails |-> 0, bad |-> 0]
  /\ last = Event("metadata", 1, 0, "good")
  /\ peerT = NewTorrent
  /\ peerWires = [w \in PeerWires |-> NewWire]

NextExchange ==
  \/ \E w \in Wires : WireConnect(w)
  \/ \E w \in Wires : Close(w)
  \/ Download

SpecExchange == InitExchange /\ [][NextExchange]_vars

(***************************************************************************)
(* Block exchange with peers that keep answering: an outstanding request   *)
(* is eventually answered with the right bytes unless it fails first.      *)
(* Nothing obliges a peer to send have or unchoke again.                   *)
(***************************************************************************)
Answers == \E w \in Wires, k \in Blocks : Piece(w, k, TRUE)

SpecAnswering == InitExchange /\ [][NextExchange]_vars /\ WF_vars(Answers)

(***************************************************************************)
(* Serving: the descriptor-ready session downloads over wire 1 and is      *)
(* asked for blocks over every wire.                                       *)
(***************************************************************************)
NextServe ==
  \/ \E w \in Wires : WireConnect(w)
  \/ \E w \in Wires : Close(w)
  \/ Upload
  \/ \E i \in Pieces : Have(1, i)
  \/ Unchoke(1)
  \/ Choke(1)
  \/ \E k \in Blocks, g \in BOOLEAN : Piece(1, k, g)
  \/ \E k \in Blocks : RequestFails(1, k)

SpecServe == InitExchange /\ [][NextServe]_vars

(***************************************************************************)
(* Two local sessions for the same content, as in the repository's test    *)
(* 'ut_metadata transfer between local torrents': torrent (client B) and   *)
(* peerT (client A), each added to a client of its own, connected to each  *)
(* other by their wires 1 once both are listening.  A wire's ut_metadata   *)
(* extension serves the metadata the session had when the wire was set up. *)
(* Wire 2 of each session leads to some other peer.                        *)
(***************************************************************************)
AddPeer(torrentId) ==
  /\ peerT.state = "absent"
  /\ LET t == Torrent(torrentId)
     IN  peerT' = IF t.state = "constructed" THEN [t EXCEPT !.listeners = TRUE]
                  ELSE t
  /\ last' = Event("addPeer", 0, 0, torrentId.kind)
  /\ UNCHANGED <<torrent, wires, pending, env, peerWires>>

ListeningPeer ==
  /\ peerT.state = "constructed" /\ peerT.swarm /\ ~peerT.listening
  /\ peerT' = [peerT EXCEPT !.listening = TRUE, !.nListeningEv = @ + 1]
  /\ last' = Event("listeningPeer", 0, 0, "")
  /\ UNCHANGED <<torrent, wires, pending, env, peerWires>>

\* addPeer on both sides: each swarm emits 'wire'
Link ==
  /\ Alive /\ peerT.state = "constructed"
  /\ torrent.listening /\ peerT.listening
  /\ wires[1].status = "none" /\ peerWires[1].status = "none"
  /\ LET b == onWire(torrent, wires[1])
         a == onWire(peerT, peerWires[1])
     IN  /\ wires' = [wires EXCEPT ![1] = b.w]
         /\ torrent' = IF b.exc THEN [torrent EXCEPT !.state = "crashed"] ELSE torrent
         /\ peerWires' = [peerWires EXCEPT ![1] = a.w]
         /\ peerT' = IF a.exc THEN [peerT EXCEPT !.state = "crashed"] ELSE peerT
  /\ last' = Event("link", 1, 0, "")
  /\ UNCHANGED <<pending, env>>

\* torrent's fetch over wire 1 completes with what peerT's extension serves
FetchFromPeer ==
  /\ Alive /\ Open(1) /\ wires[1].fetch /\ ~wires[1].delivered
  /\ peerT.state = "constructed" /\ peerWires[1].status = "open"
  /\ Truthy(peerWires[1].utMeta)
  /\ LET r == onMetadata(torrent, [wires EXCEPT ![1].delivered = TRUE],
                         peerWires[1].utMeta)
     IN  /\ wires' = r.ws
         /\ torrent' = IF r.exc THEN [r.t EXCEPT !.state = "crashed"] ELSE r.t
  /\ last' = Event("metadata", 1, 0, peerWires[1].utMeta)
  /\ UNCHANGED <<pending, env, peerT, peerWires>>

\* peerT's fetch over its wire 1 completes with what torrent's extension serves
PeerFetches ==
  /\ peerT.state = "constructed" /\ peerWires[1].status = "open"
  /\ peerWires[1].fetch /\ ~peerWires[1].delivered
  /\ Alive /\ Open(1) /\ Truthy(wires[1].utMeta)
  /\ LET r == onMetadata(peerT, [peerWires EXCEPT ![1].delivered = TRUE],
                         wires[1].utMeta)
     IN  /\ peerWires' = r.ws
         /\ peerT' = IF r.exc THEN [r.t EXCEPT !.state = "crashed"] ELSE r.t
  /\ last' = Event("metadataPeer", 1, 0, wires[1].utMeta)
  /\ UNCHANGED <<torrent, wires, pending, env>>

\* peerT's wire to another peer, and the metadata that peer may deliver
PeerWireConnect ==
  /\ peerT.state = "constructed" /\ peerT.swarm
  /\ peerWires[2].status = "none"
  /\ LET r == onWire(peerT, peerWires[2])
     IN  /\ peerWires' = [peerWires EXCEPT ![2] = r.w]
         /\ peerT' = IF r.exc THEN [peerT EXCEPT !.state = "crashed"] ELSE peerT
  /\ last' = Event("wirePeer", 2, 0, "")
  /\ UNCHANGED <<torrent, wires, pending, env>>

PeerMetadataArrives(metadata) ==
  /\ peerT.state = "constructed" /\ peerWires[2].status = "open"
  /\ peerWires[2].fetch /\ ~peerWires[2].delivered
  /\ LET r == onMetadata(peerT, [peerWires EXCEPT ![2].delivered = TRUE], metadata)
     IN  /\ peerWires' = r.ws
         /\ peerT' = IF r.exc THEN [r.t EXCEPT !.state = "crashed"] ELSE r.t
  /\ last' = Event("metadataPeer", 2, 0, metadata)
  /\ UNCHANGED <<torrent, wires, pending, env>>

\* what the two clients and the link between them do by themselves
PairSteps ==
  \/ \E id \in TorrentIds : Add(id)
  \/ \E id \in TorrentIds : AddPeer(id)
  \/ Listening
  \/ ListeningPeer
  \/ Link
  \/ FetchFromPeer
  \/ PeerFetches

\* what other peers may do
OtherPeers ==
  \/ WireConnect(2)
  \/ \E b \in Blobs : MetadataArrives(2, b)
  \/ PeerWireConnect
  \/ \E b \in Blobs : PeerMetadataArrives(b)

NextPair == PairSteps \/ OtherPeers

\* the clients' steps are callbacks of the event loop: a step that stays
\* possible is taken; nothing obliges another peer to connect or to answer
SpecPair == Init /\ [][NextPair]_vars /\ WF_vars(PairSteps)

(***************************************************************************)
(* Properties.                                                             *)
(***************************************************************************)
\* the session was added from a torrent file that parses
FromFile == torrent.torrentId.kind = "file" /\ parseTorrent(torrent.torrentId.blob).ok
\* the session was added from an info hash or a magnet uri that carries one
FromHash == torrent.torrentId.kind \in {"hash", "magnet"} /\ Truthy(torrent.torrentId.hash)
Constructed == torrent.state # "absent"
DescriptorReady == torrent.storage # NullObj

\* C1: in every reachable state every wire has at most 5 outstanding block
\* requests, whatever the interleaving of have, unchoke, choke, answered and
\* failed requests on this and the other wires.
C1_RequestCeiling == \A w \in Wires : NumRequests(wires[w]) <= 5

\* a wire with exactly 5 outstanding requests
C1_Witness == \E w \in Wires : NumRequests(wires[w]) = 5

\* C2: an incoming request longer than 131072 bytes leaves the wire destroyed
\* and is never queued for an answer; a request of at most 131072 bytes leaves
\* the wire open.
C2_OversizedRequest ==
  /\ last.op = "request" => (last.n > 131072 <=> wires[last.w].status = "destroyed")
  /\ last.op = "request" /\ last.n <= 131072 => wires[last.w].status = "open"
  /\ \A i \in 1..Len(pending) : pending[i].length <= 131072
  /\ \A w \in Wires : wires[w].status = "destroyed" =>
        \A i \in 1..Len(pending) : pending[i].w # w \/ pending[i].length <= 131072

\* a request of 131073 bytes has just destroyed its wire
C2_Witness ==
  last.op = "request" /\ last.n = 131073 /\ wires[last.w].status = "destroyed"

\* the test's scenario: peerT added from the torrent file, torrent from the
\* info hash of the same content, and no other peer has connected to torrent
FileId == [kind |-> "file", blob |-> "good", hash |-> UNDEF]
PairScenario ==
  /\ peerT.torrentId = FileId /\ torrent.torrentId = HashId
  /\ wires[2].status = "none"

\* C3: in the test's scenario torrent eventually is descriptor-ready, its client
\* has emitted 'torrent', and its descriptor and file list equal peerT's
\* (unless another peer connects to it first).
C3_MetadataTransfer ==
  PairScenario ~>
    \/ wires[2].status # "none"
    \/ /\ DescriptorReady /\ torrent.nTorrentEv >= 1
       /\ torrent.parsedTorrent = peerT.parsedTorrent
       /\ torrent.files = peerT.files

\* C4: once a session that was added has its metadata (bytes and parsed
\* descriptor), the client has emitted 'torrent' for it.
C4_TorrentEventEmitted ==
  Constructed /\ Truthy(torrent.metadata) /\ torrent.parsedTorrent # NullObj
    => torrent.nTorrentEv >= 1

\* C5: a session added from a torrent file that parses ends its construction
\* with the parsed file as its descriptor, keeps it, and every wire connected
\* to it is in block exchange (bitfield sent, interest declared) with no
\* metadata fetch attached.
C5_DescriptorFromFile ==
  Constructed /\ FromFile =>
    /\ torrent.state = "constructed"
    /\ torrent.parsedTorrent = parseTorrent(torrent.torrentId.blob)
    /\ \A w \in Wires : wires[w].status = "open" =>
         wires[w].bx = 1 /\ wires[w].bitfields = 1 /\ wires[w].interests = 1
           /\ ~wires[w].fetch

\* C6: a session added from an info hash keeps that info hash, and the
\* descriptor it adopts has this very info hash.
C6_MismatchDiscarded ==
  Constructed /\ FromHash =>
    /\ torrent.infoHash = torrent.torrentId.hash
    /\ DescriptorReady => torrent.parsedTorrent.infoHash = torrent.torrentId.hash

\* C7: the Storage engine is constructed at most once and 'metadata' is emitted
\* at most once; once the session is descriptor-ready no step changes its
\* metadata, descriptor, file list, info hash or the identity of its storage.
C7_ReadyOnce ==
  /\ [](torrent.nStorage <= 1 /\ torrent.nMetadataEv <= 1)
  /\ [][DescriptorReady =>
          /\ torrent'.metadata = torrent.metadata
          /\ torrent'.parsedTorrent = torrent.parsedTorrent
          /\ torrent'.files = torrent.files
          /\ torrent'.infoHash = torrent.infoHash
          /\ torrent'.nStorage = torrent.nStorage
          /\ torrent'.nMetadataEv = torrent.nMetadataEv
          /\ torrent'.storage # NullObj /\ torrent'.storage.id = torrent.storage.id]_vars

\* a second candidate has arrived at a descriptor-ready session
C7_Witness ==
  /\ DescriptorReady /\ torrent.nMetadataEv = 1
  /\ last.op = "metadata"
  /\ \A w \in Wires : wires[w].delivered

\* C8: a candidate that parses, arriving at a session that is not yet
\* descriptor-ready, makes it descriptor-ready, also after a candidate that
\* failed to parse; and a wire connected to a session that is not
\* descriptor-ready is handled in bootstrap mode (metadata fetch attached).
C8_BootstrapSurvivesParseError ==
  /\ last.op = "metadata" /\ parseTorrent(last.s).ok => DescriptorReady
  /\ last.op = "wire" /\ ~DescriptorReady =>
       torrent.state = "constructed" /\ wires[last.w].fetch

\* C9 as stated: every 'interested' event handled on a wire in block exchange
\* is followed by a call of wire.unchoke().
C9_UnchokeOnEveryInterest == last.op = "interested" => last.n >= 1

\* C9 as amended: an 'interested' event on a wire in block exchange calls
\* wire.unchoke() once if the session was still choking the peer and not at all
\* if it was not; after the event the peer is unchoked.
C9_UnchokeOnFirstInterest ==
  /\ [](last.op = "interested" => ~wires[last.w].amChoking)
  /\ [][last'.op = "interested" =>
          last'.n = IF wires[last'.w].amChoking THEN 1 ELSE 0]_vars

\* a later 'interested' event, which called nothing
C9_Witness == last.op = "interested" /\ last.n = 0

\* C10: an accepted request (at most 128 KiB) is queued once and answered once,
\* with data exactly if its piece is verified and with an error otherwise.
C10_OneAnswerVerifiedOnly ==
  /\ [](last.op = "respond" =>
          (last.s = "data" <=> last.n \in torrent.storage.verified)
            /\ last.s \in {"data", "error"})
  /\ [][/\ last'.op = "request" /\ last'.n <= 131072 /\ last' # last
             => Len(pending') = Len(pending) + 1
        /\ last'.op = "respond" /\ last' # last
             => pending' = Tail(pending)
        /\ last'.op \notin {"request", "respond"} => pending' = pending]_vars

\* a request for a block of a verified piece was answered with data while
\* another piece is still unverified
C10_Witness ==
  /\ last.op = "respond" /\ last.s = "data"
  /\ torrent.storage.verified # Pieces

\* the session was added from malformed input: a magnet uri without an info
\* hash, or a torrent file that does not parse
Malformed ==
  \/ torrent.torrentId.kind = "magnet" /\ ~Truthy(torrent.torrentId.hash)
  \/ torrent.torrentId.kind = "file" /\ ~parseTorrent(torrent.torrentId.blob).ok

\* C11: a session constructed from malformed input ends its construction with
\* the error thrown to the caller, has no swarm, never listens and emits no
\* 'listening' event.
C11_MalformedInputStops ==
  Constructed /\ Malformed =>
    /\ torrent.state = "threw"
    /\ ~torrent.swarm /\ ~torrent.listening /\ torrent.nListeningEv = 0
    /\ \A w \in Wires : wires[w].status = "none"

\* a torrent file that does not parse was added
C11_Witness ==
  /\ torrent.state = "threw" /\ torrent.torrentId.kind = "file"
  /\ ~parseTorrent(torrent.torrentId.blob).ok /\ last.op = "add"

\* the step issues on wire w a request for block k, which is not written
\* and has an outstanding request on another wire
DuplicateIssued(w, k) ==
  /\ torrent.storage # NullObj /\ torrent.storage.block[k] # "written"
  /\ wires'[w].requests[k] > wires[w].requests[k]
  /\ \E v \in Wires \ {w} : wires'[v].requests[k] > 0

\* wire.requests.length of wire w when the fill cycle of the step started: a
\* block response has removed its request before the callback refills
LenAtFill(w) ==
  NumRequests(wires[w]) - (IF last'.op = "piece" /\ last'.w = w THEN 1 ELSE 0)

\* C12: a step issues a duplicate request (for a block with an outstanding
\* request on another wire) only as the first request of a fill cycle on a wire
\* that had no outstanding request, and only while numMissing < 30.
C12_DuplicateOnlyWhenIdle ==
  [][\A w \in Wires, k \in Blocks :
       DuplicateIssued(w, k) =>
         /\ LenAtFill(w) = 0
         /\ numMissing(torrent.storage) < 30
         /\ \A j \in Blocks : wires'[w].requests[j] > wires[w].requests[j]
                                  => PieceOf(j) >= PieceOf(k)]_vars

\* an open wire whose peer does not choke us and has the piece of block k
Requestable(k) ==
  \E w \in Wires : Open(w) /\ wires[w].bx > 0 /\ ~wires[w].peerChoking
                     /\ PieceOf(k) \in wires[w].peerPieces

\* C13: after a request for block k has failed, the block eventually is
\* requested again or written, unless no open wire that could be asked for it
\* remains; the peers keep answering and need not send have or unchoke again.
C13_FailedBlockRetried ==
  \A k \in Blocks :
    (last.op = "fail" /\ last.n = k /\ Alive)
      ~> (torrent.storage.block[k] # "missing" \/ ~Requestable(k))

\* a requestPiece on wire w would select a block of piece index now
Selectable(w, index) ==
  SelectedBlock(torrent.storage, index,
                NumRequests(wires[w]) = 0
                  /\ numMissing(torrent.storage) < ENDGAME_THRESHOLD) # NoBlock

\* C14: after the fill cycle of an unchoke event or of a block response the
\* wire has 5 outstanding requests, or no piece the peer has holds a block
\* that could be selected.
C14_WindowFullAfterFill ==
  Alive /\ DescriptorReady /\ last.op \in {"unchoke", "piece"} =>
    \/ NumRequests(wires[last.w]) = 5
    \/ \A index \in wires[last.w].peerPieces : ~Selectable(last.w, index)

\* the requests a fill cycle started now on wire w would issue, in order
FillOrder(w) == requestOrderFrom(torrent.storage, wires[w], 0)

\* two wires in the same position with respect to the scheduler
SameAvailability(w, v) ==
  /\ wires[w].peerPieces = wires[v].peerPieces
  /\ wires[w].requests = wires[v].requests
  /\ wires[w].peerChoking = wires[v].peerChoking
  /\ wires[w].status = wires[v].status

C16_SwitchedExactlyOnce ==
  /\ \A w \in Wires :
        wires[w].bx <= 1 /\ wires[w].bitfields <= 1 /\ wires[w].interests <= 1
  /\ Alive /\ DescriptorReady =>
        \A w \in Wires :
          Open(w) => wires[w].bx = 1 /\ wires[w].bitfields = 1 /\ wires[w].interests = 1

\* a descriptor-ready session with a wire that connected before the descriptor
\* was known and a wire that connected afterwards, and every candidate delivered
C16_Witness ==
  /\ Alive /\ DescriptorReady
  /\ \E w, v \in Wires :
        /\ Open(w) /\ wires[w].fetch /\ wires[w].delivered /\ wires[w].bx = 1
        /\ Open(v) /\ ~wires[v].fetch /\ wires[v].bx = 1
  /\ \A w \in Wires : wires[w].fetch => wires[w].delivered

\* C17: a step in which the storage verifies a piece announces it with have()
\* on every wire that is open, and every open wire in block exchange has been
\* told, by its bitfield or by a have, of every verified piece.
C17_VerifiedAnnounced ==
  /\ [](Alive /\ DescriptorReady =>
         \A w \in Wires :
           Open(w) /\ wires[w].bx > 0 => torrent.storage.verified \subseteq wires[w].told)
  /\ [][torrent.storage # NullObj /\ torrent'.storage # NullObj =>
          \A w \in Wires :
            Open(w) /\ wires'[w].status = "open" =>
              wires'[w].told =
                wires[w].told \cup (torrent'.storage.verified \ torrent.storage.verified)]_vars

\* a block response has just completed and verified a piece while two wires
\* are open, and another piece is not verified yet
C17_Witness ==
  /\ last.op = "piece" /\ PieceOf(last.n) \in torrent.storage.verified
  /\ torrent.storage.verified # Pieces
  /\ \A w \in Wires : Open(w) /\ PieceOf(last.n) \in wires[w].told

\* C18: every block in state requested has an outstanding request on an open
\* wire, whatever requests have failed and whatever wires were closed, choked
\* or destroyed.
C18_NoStuckRequested ==
  Alive /\ DescriptorReady =>
    \A k \in Blocks :
      torrent.storage.block[k] = "requested" =>
        \E w \in Wires : Open(w) /\ wires[w].requests[k] > 0

\* a request has just failed and its block is missing again, while a wire was
\* closed and other blocks are requested
C18_Witness ==
  /\ last.op = "fail" /\ torrent.storage.block[last.n] = "missing"
  /\ \E w \in Wires : wires[w].status = "closed"
  /\ \E k \in Blocks : torrent.storage.block[k] = "requested"

C20_DescriptorAllOrNone ==
  torrent.state \in {"constructed", "crashed"} =>
    /\ Truthy(torrent.metadata) <=> torrent.parsedTorrent # NullObj
    /\ Truthy(torrent.metadata) <=> torrent.storage # NullObj
    /\ \A w \in Wires : wires[w].bx > 0 => torrent.storage # NullObj

====
